---- MODULE Spec2Model ----
(***************************************************************************)
(* PredictX: the settlement scheduler of server/routes.ts, the in-memory   *)
(* prediction store of server/storage.ts, the price oracle of              *)
(* server/services/coinGeckoService.ts and the ClearNode gateway of        *)
(* server/services/yellowNetworkService.ts (the env-validated draft).      *)
(*                                                                         *)
(* Node runs one callback at a time; an async function runs atomically     *)
(* from one real suspension (network, timer) to the next, so every action  *)
(* below is one such segment.  Awaits on MemStorage resolve in microtasks  *)
(* and belong to the segment that issues them.                             *)
(*                                                                         *)
(* Numbers are prices in hundredths (101.5 is 10150).  A decimal string    *)
(* of the store ("101.50") is the pair <<integer part, fraction digits>>.  *)
(***************************************************************************)
EXTENDS Integers, Sequences, FiniteSets, TLC

\* ---------------------------------------------------------------- bounds
MaxTime == 3
MaxPreds == 2
MaxConns == 2
MaxCalls == 4
MaxSockets == 4
MaxSubmits == 2
MaxJoins == 2

\* The two scheduler callbacks that may be in progress at once.
Ticks == {"t1", "t2"}
Users == {"u1", "u2"}

\* The components of a page that call useYellowNetwork().
Hooks == {"Navigation", "Dashboard", "TechnicalMetrics"}

VARIABLES
    \* settlement scheduler and store
    clock,          \* Date.now(), in abstract instants
    predictions,    \* MemStorage.predictions, in insertion order (id = index)
    submitting,     \* ids whose POST /api/predictions awaits the gateway
    users,          \* MemStorage.users: the statistics of each user
    ticks,          \* each scheduler callback: where it is and what it holds
    settledEvents,  \* 'prediction_settled' broadcasts, per prediction id
    writeBacks,     \* settlement write-backs applied, per prediction id
    statsUpdates,   \* statistics updates applied, per prediction id
    settleErrors,   \* ids logged with "Yellow Network settlement error"
    \* the isCorrect switch taken alone: its input, the isCorrect of one run
    \* and the isCorrect of a second run on the same contract and price
    evalIn, evalOut, evalAgain,
    \* the ClearNode gateway (YellowNetworkService)
    envOk,            \* the required environment variables are all set
    wsState,          \* this.ws: "none", or its readyState
    epoch,            \* how many times connect() has run; the socket it
                      \* created, if any, is the connection of that number
    reconnectTimers,  \* pending setTimeout(() => this.connect(), 5000)
    isConnected, sessionId, authToken, sessionOpen,
    signalsLeft,      \* SIGINT, SIGTERM: the process.once handlers not yet run
    frames,           \* the kinds of frames handleIncoming has let drop
    pending,          \* the keys of this.pending
    timers,           \* calls whose 30 s timer has not fired yet
    wire,             \* calls the node received on this socket, unanswered
    calls,            \* every call of request(), by id: who awaits it, the
                      \* outcomes delivered to that caller, and the
                      \* connection current when it was made
    clientSockets,    \* browser: every WebSocket yellowNetworkClient made
    clientWs,         \* browser: yellowNetworkClient.ws (0: null)
    clientIsConnected,\* browser: yellowNetworkClient.isConnected
    clientTimers,     \* browser: reconnect timers set and not yet fired
    clientHooks,      \* browser: useYellowNetwork instances whose effect ran
    messageHandlers,  \* browser: the submitPrediction call whose handler is
                      \* under 'prediction_submitted' (0: none)
    clientCalls,      \* browser: every submitPrediction call: the socket it
                      \* used and what settled its promise
    clientWire,       \* browser: calls whose message the node has not
                      \* answered yet
    submittedEvents,  \* 'prediction_submitted' broadcasts, by prediction
    returned,         \* predictions whose record POST /api/predictions
                      \* sent back with res.json
    tournaments       \* MemStorage.tournaments: status, endTime, participant
                      \* count, and how often its rewards were distributed

schedVars == <<clock, predictions, submitting, users, ticks, settledEvents,
               writeBacks, statsUpdates, settleErrors>>
evalVars == <<evalIn, evalOut, evalAgain>>
gwVars == <<envOk, wsState, epoch, reconnectTimers, isConnected, sessionId,
            authToken, sessionOpen, signalsLeft, frames, pending, timers, wire,
            calls>>
submitVars == <<messageHandlers, clientCalls, clientWire>>
clientVars == <<clientSockets, clientWs, clientIsConnected, clientTimers,
                clientHooks, submitVars>>
routeVars == <<submittedEvents, returned>>
tournVars == <<tournaments>>
vars == <<schedVars, evalVars, gwVars, clientVars, routeVars, tournVars>>

\* null / undefined of any field
Null == <<>>

Abs(x) == IF x < 0 THEN -x ELSE x

Max(a, b) == IF a >= b THEN a ELSE b

\* ------------------------------------------------- decimal strings, numbers
\* parseFloat of a decimal string "i.ff"
ParseFloat(s) == s[1] * 100 + s[2]

\* n.toFixed(8) of a non-negative number: the decimal string of n
ToFixed(n) == <<n \div 100, n % 100>>

\* a string is truthy unless it is null (or empty)
Truthy(s) == s # Null

\* ------------------------------------------------------------- the oracle
\* What /simple/price answers for the asset: <<usd>>, or Null when the
\* answer has no entry for it.
OraclePrices == {0, 4999, 5000, 5001, 9799, 9800, 10150, 10200, 10201, 10300}

\* prices[coinId]?.usd || 0
GetCurrentPrice(resp) == IF resp = Null THEN 0 ELSE resp[1]

\* --------------------------------------------------- the isCorrect switch
\* PriceTargetCorrect with the boundary left out (< for <=)
PriceTargetCorrectStrict(targetPrice, currentPrice) ==
    IF Truthy(targetPrice)
    THEN LET target == ParseFloat(targetPrice)
         IN  Abs(currentPrice - target) * 100 < target * 2
    ELSE FALSE

PriceTargetCorrect(targetPrice, currentPrice) ==
    IF Truthy(targetPrice)
    THEN LET target == ParseFloat(targetPrice)
         IN  Abs(currentPrice - target) * 100 <= target * 2
    ELSE FALSE

AboveBelowCorrect(targetPrice, direction, currentPrice) ==
    IF Truthy(targetPrice)
    THEN LET target == ParseFloat(targetPrice)
         IN  IF direction = "up" THEN currentPrice > target
                                 ELSE currentPrice < target
    ELSE FALSE

\* random is Math.random() > 0.5
ComputeIsCorrect(p, currentPrice, random) ==
    CASE p.predictionType = "price_target" ->
            PriceTargetCorrect(p.targetPrice, currentPrice)
      [] p.predictionType = "direction" -> random
      [] p.predictionType = "above_below" ->
            AboveBelowCorrect(p.targetPrice, p.direction, currentPrice)
      [] OTHER -> FALSE

PredictionTypes == {"price_target", "direction", "above_below"}
Directions == {"none", "up", "down", "sideways"}
TargetPrices == {Null, <<0, 0>>, <<50, 0>>, <<100, 0>>}

EvalInputs ==
    [predictionType : PredictionTypes, targetPrice : TargetPrices,
     direction : Directions, currentPrice : OraclePrices, random : BOOLEAN]

Evaluate ==
    /\ evalOut = Null
    /\ evalOut' = <<ComputeIsCorrect(evalIn, evalIn.currentPrice, evalIn.random)>>
    /\ UNCHANGED <<evalIn, evalAgain, schedVars, gwVars,
                   clientVars, routeVars,
                   tournVars>>

\* A second settlement of the same contract against the same price: the
\* switch runs again, with its own Math.random().
EvaluateAgain ==
    /\ evalAgain = Null
    /\ \E random \in BOOLEAN :
         evalAgain' = <<ComputeIsCorrect(evalIn, evalIn.currentPrice, random)>>
    /\ UNCHANGED <<evalIn, evalOut, schedVars, gwVars,
                   clientVars, routeVars,
                   tournVars>>

\* ------------------------------------------------------ the prediction store
\* MemStorage.createPrediction: the record of a new prediction
NewPrediction(ins) ==
    [userId |-> ins.userId, predictionType |-> ins.predictionType,
     targetPrice |-> ins.targetPrice, direction |-> ins.direction,
     expiresAt |-> ins.expiresAt,
     isCorrect |-> Null, actualPrice |-> Null, stateChannelTx |-> Null,
     settledAt |-> Null]

\* { ...prediction, ...updates }
Merge(rec, updates) ==
    [f \in DOMAIN rec |-> IF f \in DOMAIN updates THEN updates[f] ELSE rec[f]]

\* MemStorage.updatePrediction: the map after the call
UpdatePrediction(id, updates) ==
    IF id \notin DOMAIN predictions
    THEN predictions
    ELSE [predictions EXCEPT ![id] = Merge(@, updates)]

PredictionIds == [i \in 1..Len(predictions) |-> i]

\* GetActivePredictions selecting the expired predictions instead of the
\* unexpired ones (<= for >)
GetActivePredictionsExpired(now) ==
    SelectSeq(PredictionIds,
              LAMBDA i : /\ predictions[i].expiresAt <= now
                         /\ predictions[i].isCorrect = Null)

\* MemStorage.getActivePredictions, called at instant now
GetActivePredictions(now) ==
    SelectSeq(PredictionIds,
              LAMBDA i : /\ predictions[i].expiresAt > now
                         /\ predictions[i].isCorrect = Null)

\* UpdateUserStats that leaves maxStreak as it was
UpdateUserStatsKeepsMax(user, isCorrect) ==
    LET newTotal == user.totalPredictions + 1
        newCorrect == user.correctPredictions + (IF isCorrect THEN 1 ELSE 0)
        newStreak == IF isCorrect THEN user.currentStreak + 1 ELSE 0
    IN  [totalPredictions |-> newTotal, correctPredictions |-> newCorrect,
         currentStreak |-> newStreak,
         maxStreak |-> user.maxStreak]

\* MemStorage.updateUser with the statistics of one settlement
UpdateUserStats(user, isCorrect) ==
    LET newTotal == user.totalPredictions + 1
        newCorrect == user.correctPredictions + (IF isCorrect THEN 1 ELSE 0)
        newStreak == IF isCorrect THEN user.currentStreak + 1 ELSE 0
    IN  [totalPredictions |-> newTotal, correctPredictions |-> newCorrect,
         currentStreak |-> newStreak,
         maxStreak |-> Max(user.maxStreak, newStreak)]

Range(q) == {q[i] : i \in DOMAIN q}

\* ------------------------------------------------- POST /api/predictions
\* What the scheduler's runs insert: every kind, one target, any expiry.
PredictionInputs ==
    [userId : Users, predictionType : PredictionTypes,
     targetPrice : {<<100, 0>>}, direction : {"up"}, expiresAt : 1..MaxTime]

\* The route up to its await of yellowNetworkService.submitPrediction.
CreatePrediction(ins) ==
    /\ Len(predictions) < MaxPreds
    /\ ins.expiresAt > clock
    /\ predictions' = Append(predictions, NewPrediction(ins))
    /\ submitting' = submitting \cup {Len(predictions) + 1}
    /\ UNCHANGED <<clock, users, ticks, settledEvents, writeBacks, statsUpdates,
                   settleErrors, evalVars, clientVars, routeVars, gwVars,
                   tournVars>>

\* submitPrediction returned a stateChannelTx: it is stored,
\* 'prediction_submitted' is broadcast and the record is sent back.
SubmitReturns(id) ==
    /\ id \in submitting
    /\ predictions' = UpdatePrediction(id, [stateChannelTx |-> <<"tx">>])
    /\ submitting' = submitting \ {id}
    /\ submittedEvents' = [submittedEvents EXCEPT ![id] = @ + 1]
    /\ returned' = returned \cup {id}
    /\ UNCHANGED <<clock, users, ticks, settledEvents, writeBacks, statsUpdates,
                   settleErrors, evalVars, clientVars, gwVars,
                   tournVars>>

\* SubmitThrows without the inner try/catch: the exception reaches the
\* route's catch, which answers 500 instead of the record
SubmitThrowsAnswers500(id) ==
    /\ id \in submitting
    /\ submitting' = submitting \ {id}
    /\ UNCHANGED <<clock, predictions, users, ticks, settledEvents, writeBacks,
                   statsUpdates, settleErrors, evalVars, clientVars, routeVars,
                   gwVars,
                   tournVars>>

\* submitPrediction threw: logged, the record stays as created and is
\* sent back.
SubmitThrows(id) ==
    /\ id \in submitting
    /\ submitting' = submitting \ {id}
    /\ returned' = returned \cup {id}
    /\ UNCHANGED <<clock, predictions, users, ticks, settledEvents, writeBacks,
                   statsUpdates, settleErrors, submittedEvents, evalVars,
                   clientVars, gwVars,
                   tournVars>>

\* ------------------------------------------------------------ tournaments
\* The tournaments MemStorage is seeded with.
TournamentIds == {"weekly", "cup"}

\* MemStorage.getActiveTournaments, called at instant now
GetActiveTournaments(now) ==
    {id \in TournamentIds : /\ tournaments[id].status = "active"
                            /\ tournaments[id].endTime > now}

\* TournamentService.checkTournamentCompletion, reading the time as now:
\* the record of tournament id afterwards (distributeTournamentRewards
\* counted in distributions).
CheckTournamentCompletion(id, now) ==
    IF tournaments[id].endTime <= now /\ tournaments[id].status = "active"
    THEN [tournaments[id] EXCEPT !.status = "completed",
                                 !.distributions = @ + 1]
    ELSE tournaments[id]

\* The end of the scheduler's callback: the tournaments the store gave as
\* active at instant read are checked for completion at instant now.
TournamentLoop(read, now) ==
    [id \in TournamentIds |->
        IF id \in GetActiveTournaments(read)
        THEN CheckTournamentCompletion(id, now)
        ELSE tournaments[id]]

\* POST /api/tournaments/:id/join
JoinTournament(id) ==
    /\ tournaments[id].currentParticipants < MaxJoins
    /\ tournaments' = [tournaments EXCEPT ![id].currentParticipants = @ + 1]
    /\ UNCHANGED <<schedVars, evalVars, gwVars, clientVars, routeVars>>

\* ------------------------------------------------ the settlement scheduler
\* A callback that is not running.
IdleTick == [pc |-> "idle", now |-> 0, queue |-> <<>>, fails |-> {}]

\* DueOf one instant early (now + 1 for now)
DueOfEarly(active, now) ==
    SelectSeq(active, LAMBDA i : predictions[i].expiresAt <= now + 1)

\* DueOf without the test of expiresAt: the whole snapshot is settled
DueOfAll(active, now) ==
    SelectSeq(active, LAMBDA i : TRUE)

\* The predictions of a snapshot the loop settles: expiresAt <= now
DueOf(active, now) ==
    SelectSeq(active, LAMBDA i : predictions[i].expiresAt <= now)

\* The interval fires: the store is asked for the active predictions, the
\* callback reads the time (d instants later) and walks the snapshot up to
\* its first oracle lookup; with nothing to settle it ends at once.
\* fails: the contracts of this run for which the oracle lookup will throw.
TickStart(t) ==
    /\ ticks[t].pc = "idle"
    /\ \E d \in 0..1 :
         /\ clock + d <= MaxTime
         /\ LET active == GetActivePredictions(clock)
                now == clock + d
                queue == DueOf(active, now)
            IN  /\ clock' = now
                /\ \E fails \in SUBSET Range(queue) :
                     ticks' = [ticks EXCEPT ![t] =
                                 IF queue = <<>>
                                 THEN IdleTick
                                 ELSE [pc |-> "oracle", now |-> now,
                                       queue |-> queue, fails |-> fails]]
                /\ IF queue = <<>>
                   THEN \E read \in {clock, now} :
                           tournaments' = TournamentLoop(read, now)
                   ELSE UNCHANGED tournaments
    /\ UNCHANGED <<predictions, submitting, users, settledEvents, writeBacks,
                   statsUpdates, settleErrors, evalVars, clientVars, routeVars,
                   gwVars>>

\* getCurrentPrice threw: the exception leaves the loop for the callback's
\* catch, which logs it; the rest of the snapshot is not visited.
OracleFails(t) ==
    /\ ticks[t].pc = "oracle"
    /\ Head(ticks[t].queue) \in ticks[t].fails
    /\ ticks' = [ticks EXCEPT ![t] = IdleTick]
    /\ UNCHANGED <<clock, predictions, submitting, users, settledEvents,
                   writeBacks, statsUpdates, settleErrors, evalVars, clientVars, routeVars, gwVars,
                   tournVars>>

SchedOracleResponses == {Null, <<9800>>}

\* getCurrentPrice returned: isCorrect, the write-back, the owner's
\* statistics, then the call of yellowNetworkService.settlePrediction.
OracleAnswers(t) ==
    /\ ticks[t].pc = "oracle"
    /\ Head(ticks[t].queue) \notin ticks[t].fails
    /\ \E resp \in SchedOracleResponses, random \in BOOLEAN :
         LET id == Head(ticks[t].queue)
             prediction == predictions[id]
             currentPrice == GetCurrentPrice(resp)
             isCorrect == ComputeIsCorrect(prediction, currentPrice, random)
         IN  /\ predictions' =
                   UpdatePrediction(id, [actualPrice |-> ToFixed(currentPrice),
                                         isCorrect |-> <<isCorrect>>,
                                         settledAt |-> <<ticks[t].now>>])
             /\ users' = IF prediction.userId \in DOMAIN users
                         THEN [users EXCEPT ![prediction.userId] =
                                  UpdateUserStats(@, isCorrect)]
                         ELSE users
             /\ writeBacks' = [writeBacks EXCEPT ![id] = @ + 1]
             /\ statsUpdates' = [statsUpdates EXCEPT ![id] = @ + 1]
    /\ ticks' = [ticks EXCEPT ![t].pc = "gateway"]
    /\ UNCHANGED <<clock, submitting, settledEvents, settleErrors, evalVars, clientVars, routeVars,
                   gwVars,
                   tournVars>>

\* The prediction loop is over (nothing is left of the snapshot): the
\* callback goes on to its tournament loop and ends; else it stays in the
\* prediction loop.
CallbackEnd(rest) ==
    IF rest = <<>>
    THEN \E e \in 0..1 :
            /\ clock + e <= MaxTime
            /\ clock' = clock + e
            /\ tournaments' = TournamentLoop(clock, clock + e)
    ELSE UNCHANGED <<clock, tournaments>>

\* AfterGateway without the broadcast
AfterGatewayNoBroadcast(t) ==
    LET rest == Tail(ticks[t].queue)
    IN  /\ ticks' = [ticks EXCEPT ![t] =
                        IF rest = <<>>
                        THEN IdleTick
                        ELSE [@ EXCEPT !.queue = rest, !.pc = "oracle"]]
        /\ CallbackEnd(rest)
        /\ UNCHANGED <<predictions, submitting, users, settledEvents,
                       writeBacks, statsUpdates, evalVars, clientVars,
                       routeVars, gwVars>>

\* After the gateway call: broadcast 'prediction_settled', then the next
\* contract of the snapshot, or the end of the callback.
AfterGateway(t) ==
    LET id == Head(ticks[t].queue)
        rest == Tail(ticks[t].queue)
    IN  /\ settledEvents' = [settledEvents EXCEPT ![id] = @ + 1]
        /\ ticks' = [ticks EXCEPT ![t] =
                        IF rest = <<>>
                        THEN IdleTick
                        ELSE [@ EXCEPT !.queue = rest, !.pc = "oracle"]]
        /\ CallbackEnd(rest)
        /\ UNCHANGED <<predictions, submitting, users, writeBacks,
                       statsUpdates, evalVars, clientVars, routeVars, gwVars>>

\* settlePrediction returned a txId (which the callback does not keep)
GatewayReturns(t) ==
    /\ ticks[t].pc = "gateway"
    /\ AfterGateway(t)
    /\ UNCHANGED settleErrors

\* GatewayThrows with the exception leaving the loop, as the oracle's does
GatewayThrowsAborts(t) ==
    /\ ticks[t].pc = "gateway"
    /\ ticks' = [ticks EXCEPT ![t] = IdleTick]
    /\ settleErrors' = settleErrors \cup {Head(ticks[t].queue)}
    /\ UNCHANGED <<clock, predictions, submitting, users, settledEvents,
                   writeBacks, statsUpdates, evalVars, clientVars, routeVars, gwVars,
                   tournVars>>

\* settlePrediction threw (a failed or timed-out call, no session, no
\* connection): caught and logged inside the loop
GatewayThrows(t) ==
    /\ ticks[t].pc = "gateway"
    /\ AfterGateway(t)
    /\ settleErrors' = settleErrors \cup {Head(ticks[t].queue)}

\* time passes
Advance ==
    /\ clock < MaxTime
    /\ clock' = clock + 1
    /\ UNCHANGED <<predictions, submitting, users, ticks, settledEvents,
                   writeBacks, statsUpdates, settleErrors, evalVars, clientVars, routeVars, gwVars,
                   tournVars>>

\* ------------------------------------------------------ the ClearNode gateway
\* The fields of the service that a call of request() and its continuation
\* read and write, as one value.
Gw ==
    [ws |-> wsState, sessionId |-> sessionId, authToken |-> authToken,
     sessionOpen |-> sessionOpen, pending |-> pending, timers |-> timers,
     wire |-> wire, calls |-> calls]

SetGw(g) ==
    /\ wsState' = g.ws
    /\ sessionId' = g.sessionId
    /\ authToken' = g.authToken
    /\ sessionOpen' = g.sessionOpen
    /\ pending' = g.pending
    /\ timers' = g.timers
    /\ wire' = g.wire
    /\ calls' = g.calls

\* this.ws?.close(): a socket that is open or connecting starts to close
\* (its close event comes later); one that is closed, or none, stays so.
CloseWs(g) ==
    [g EXCEPT !.ws = IF @ \in {"connecting", "open"} THEN "closing" ELSE @]

\* closeAppSession's finally, then the rest of shutdown()
AfterClose(g) ==
    CloseWs([g EXCEPT !.sessionId = Null, !.sessionOpen = FALSE])

\* A caller whose awaited call was rejected (or whose answer lacks what it
\* needs): authenticate, openAppSession, submit/settlePrediction throw and
\* leave the service as it is; closeAppSession catches, and its finally
\* resets the session.
Fail(g, cont) ==
    IF cont = "close"
    THEN AfterClose(g)
    ELSE g

\* The wire method of the call each caller awaits.
Method(cont) ==
    CASE cont = "challenge" -> "auth_challenge"
      [] cont = "verify" -> "auth_verify"
      [] cont \in {"openInit", "openLazy"} -> "session_open"
      [] cont = "close" -> "session_close"
      [] OTHER -> "app_message"

\* request(method, params) on behalf of the caller cont: the entry is put in
\* the pending table, then send() either throws (socket not open: the
\* promise is rejected, no timer is set) or writes the frame, after which
\* the 30 s timer is set.
Request(g, cont) ==
    LET id == Len(g.calls) + 1
        entered == [g EXCEPT !.pending = @ \cup {id}]
    IN  IF g.ws # "open"
        THEN Fail([entered EXCEPT !.calls =
                      Append(@, [cont |-> cont, delivered |-> 1,
                                 conn |-> epoch])],
                  cont)
        ELSE [entered EXCEPT !.calls =
                                Append(@, [cont |-> cont, delivered |-> 0,
                                           conn |-> epoch]),
                             !.wire = @ \cup {id},
                             !.timers = @ \cup {id}]

\* The caller cont resumes with a parsed response.  full: the response has
\* the field the caller reads (challengeMessage, success, sessionId, txId);
\* token: the auth_verify result carries a token.
Resume(g, cont, full, token) ==
    IF ~full
    THEN Fail(g, cont)
    ELSE CASE cont = "challenge" ->
                Request(g, "verify")
           [] cont = "verify" ->
                Request([g EXCEPT !.authToken = IF token THEN <<epoch>> ELSE Null],
                        "openInit")
           [] cont = "openInit" ->
                [g EXCEPT !.sessionId = <<epoch>>, !.sessionOpen = TRUE]
           [] cont = "openLazy" ->
                Request([g EXCEPT !.sessionId = <<epoch>>, !.sessionOpen = TRUE],
                        "app")
           [] cont = "close" ->
                AfterClose(g)
           [] OTHER -> g

\* An outcome (resolve or reject) handed to the caller of call id.
Deliver(g, id) ==
    [g EXCEPT !.calls[id].delivered = @ + 1]

\* Connect whose catch does not set the reconnect timer again
ConnectGivesUp ==
    /\ reconnectTimers > 0
    /\ epoch < MaxConns
    /\ epoch' = epoch + 1
    /\ \/ /\ wsState' = "connecting"
          /\ reconnectTimers' = reconnectTimers - 1
       \/ /\ wsState' = wsState
          /\ reconnectTimers' = reconnectTimers - 1
    /\ UNCHANGED <<envOk, signalsLeft, frames, isConnected, sessionId, authToken, sessionOpen,
                   pending, timers, wire, calls, schedVars, evalVars, clientVars, routeVars,
                   tournVars>>

\* connect(): the reconnect timer fires and a socket is created, or the
\* WebSocket constructor throws and the timer is set again.
Connect ==
    /\ reconnectTimers > 0
    /\ epoch < MaxConns
    /\ epoch' = epoch + 1
    /\ \/ /\ wsState' = "connecting"
          /\ reconnectTimers' = reconnectTimers - 1
       \/ /\ wsState' = wsState
          /\ reconnectTimers' = (reconnectTimers - 1) + 1
    /\ UNCHANGED <<envOk, signalsLeft, frames, isConnected, sessionId, authToken, sessionOpen,
                   pending, timers, wire, calls, schedVars, evalVars, clientVars, routeVars,
                   tournVars>>

\* OnOpen going straight to openAppSession, without authenticate()
OnOpenSkipsAuth ==
    /\ wsState = "connecting"
    /\ isConnected' = TRUE
    /\ LET g == [Gw EXCEPT !.ws = "open"]
           after == IF envOk THEN Request(g, "openInit")
                             ELSE g
       IN  /\ Len(after.calls) <= MaxCalls
           /\ SetGw(after)
    /\ UNCHANGED <<envOk, signalsLeft, frames, epoch, reconnectTimers, schedVars, evalVars, clientVars, routeVars,
                   tournVars>>

\* OnOpen without validateEnv()
OnOpenNoValidation ==
    /\ wsState = "connecting"
    /\ isConnected' = TRUE
    /\ LET g == [Gw EXCEPT !.ws = "open"]
           after == Request(g, "challenge")
       IN  /\ Len(after.calls) <= MaxCalls
           /\ SetGw(after)
    /\ UNCHANGED <<envOk, signalsLeft, frames, epoch, reconnectTimers, schedVars, evalVars, clientVars, routeVars,
                   tournVars>>

\* ws.onopen: validateEnv, then authenticate() up to its first await.
OnOpen ==
    /\ wsState = "connecting"
    /\ isConnected' = TRUE
    /\ LET g == [Gw EXCEPT !.ws = "open"]
           after == IF envOk THEN Request(g, "challenge")
                             ELSE g
       IN  /\ Len(after.calls) <= MaxCalls
           /\ SetGw(after)
    /\ UNCHANGED <<envOk, signalsLeft, frames, epoch, reconnectTimers, schedVars, evalVars, clientVars, routeVars,
                   tournVars>>

\* OnClose without the reset of sessionId and authToken
OnCloseKeepsSession ==
    /\ wsState \in {"connecting", "open", "closing"}
    /\ wsState' = "closed"
    /\ isConnected' = FALSE
    /\ reconnectTimers' = reconnectTimers + 1
    /\ wire' = {}
    /\ UNCHANGED <<envOk, signalsLeft, frames, epoch, sessionId, authToken, sessionOpen, pending,
                   timers, calls, schedVars, evalVars, clientVars, routeVars,
                   tournVars>>

\* ws.onclose (after an error or a close of the socket)
OnClose ==
    /\ wsState \in {"connecting", "open", "closing"}
    /\ wsState' = "closed"
    /\ isConnected' = FALSE
    /\ sessionId' = Null
    /\ authToken' = Null
    /\ reconnectTimers' = reconnectTimers + 1
    /\ wire' = {}
    /\ UNCHANGED <<envOk, signalsLeft, frames, epoch, sessionOpen, pending, timers, calls,
                   schedVars, evalVars, clientVars, routeVars,
                   tournVars>>

\* What the node answers: a response with the field the caller reads
\* (full), one without it (partial), one parseRPCResponse rejects
\* (undecodable), or a challenge the signer cannot sign (unsignable).
ResponseKinds == {"full", "partial", "undecodable", "unsignable"}

\* HandleIncoming taking answers only in the order the calls were made
HandleIncomingInOrder(id, kind, token) ==
    /\ wsState = "open"
    /\ id \in wire
    /\ \A k \in pending \cap wire : k >= id
    /\ kind = "unsignable" => calls[id].cont = "challenge"
    /\ LET g == [Gw EXCEPT !.wire = @ \ {id}]
           taken == [g EXCEPT !.pending = @ \ {id}]
           after ==
              IF id \notin g.pending
              THEN g
              ELSE IF kind = "undecodable"
                   THEN Fail(Deliver(taken, id), calls[id].cont)
                   ELSE Resume(Deliver(taken, id), calls[id].cont,
                               kind = "full", token)
       IN  /\ Len(after.calls) <= MaxCalls
           /\ SetGw(after)
    /\ UNCHANGED <<envOk, signalsLeft, frames, epoch, reconnectTimers, isConnected,
                   schedVars, evalVars, clientVars, routeVars,
                   tournVars>>

\* HandleIncoming without the test this.pending.has(msg.id)
HandleIncomingUnchecked(id, kind, token) ==
    /\ wsState = "open"
    /\ id \in wire
    /\ kind = "unsignable" => calls[id].cont = "challenge"
    /\ LET g == [Gw EXCEPT !.wire = @ \ {id}]
           taken == [g EXCEPT !.pending = @ \ {id}]
           after ==
              IF kind = "undecodable"
              THEN Fail(Deliver(taken, id), calls[id].cont)
              ELSE Resume(Deliver(taken, id), calls[id].cont,
                          kind = "full", token)
       IN  /\ Len(after.calls) <= MaxCalls
           /\ SetGw(after)
    /\ UNCHANGED <<envOk, signalsLeft, frames, epoch, reconnectTimers,
                   isConnected, schedVars, evalVars, clientVars, routeVars,
                   tournVars>>

\* ws.onmessage -> handleIncoming with the node's answer to call id.
HandleIncoming(id, kind, token) ==
    /\ wsState = "open"
    /\ id \in wire
    /\ kind = "unsignable" => calls[id].cont = "challenge"
    /\ LET g == [Gw EXCEPT !.wire = @ \ {id}]
           taken == [g EXCEPT !.pending = @ \ {id}]
           after ==
              IF id \notin g.pending
              THEN g
              ELSE IF kind = "undecodable"
                   THEN Fail(Deliver(taken, id), calls[id].cont)
                   ELSE Resume(Deliver(taken, id), calls[id].cont,
                               kind = "full", token)
       IN  /\ Len(after.calls) <= MaxCalls
           /\ SetGw(after)
    /\ UNCHANGED <<envOk, signalsLeft, frames, epoch, reconnectTimers, isConnected,
                   schedVars, evalVars, clientVars, routeVars,
                   tournVars>>

\* Timeout emptying the pending table instead of deleting its own entry
TimeoutClearsAll(id) ==
    /\ id \in timers
    /\ LET g == [Gw EXCEPT !.timers = @ \ {id}]
           after ==
              IF id \in g.pending
              THEN Fail([Deliver(g, id) EXCEPT !.pending = {}],
                        calls[id].cont)
              ELSE g
       IN  SetGw(after)
    /\ UNCHANGED <<envOk, signalsLeft, frames, epoch, reconnectTimers, isConnected,
                   schedVars, evalVars, clientVars, routeVars,
                   tournVars>>

\* The 30 s timer of call id fires.
Timeout(id) ==
    /\ id \in timers
    /\ LET g == [Gw EXCEPT !.timers = @ \ {id}]
           after ==
              IF id \in g.pending
              THEN Fail([Deliver(g, id) EXCEPT !.pending = @ \ {id}],
                        calls[id].cont)
              ELSE g
       IN  SetGw(after)
    /\ UNCHANGED <<envOk, signalsLeft, frames, epoch, reconnectTimers, isConnected,
                   schedVars, evalVars, clientVars, routeVars,
                   tournVars>>

\* AppCall opening a session whether or not there is a session id
AppCallAlwaysOpens ==
    /\ LET after == Request(Gw, "openLazy")
       IN  /\ Len(after.calls) <= MaxCalls
           /\ SetGw(after)
    /\ UNCHANGED <<envOk, signalsLeft, frames, epoch, reconnectTimers, isConnected,
                   schedVars, evalVars, clientVars, routeVars,
                   tournVars>>

\* settlePrediction or submitPrediction up to the first await: the lazy
\* openAppSession when there is no session id, else the app message.
AppCall ==
    /\ LET after == IF sessionId = Null THEN Request(Gw, "openLazy")
                                        ELSE Request(Gw, "app")
       IN  /\ Len(after.calls) <= MaxCalls
           /\ SetGw(after)
    /\ UNCHANGED <<envOk, signalsLeft, frames, epoch, reconnectTimers, isConnected,
                   schedVars, evalVars, clientVars, routeVars,
                   tournVars>>

\* shutdown() on SIGINT or SIGTERM, up to its first await: closeAppSession
\* returns at once when there is no session id, and the socket is closed;
\* else it makes the session_close call, whose outcome does the rest.
Shutdown ==
    /\ signalsLeft > 0
    /\ signalsLeft' = signalsLeft - 1
    /\ LET after == IF sessionId = Null THEN CloseWs(Gw)
                                        ELSE Request(Gw, "close")
       IN  /\ Len(after.calls) <= MaxCalls
           /\ SetGw(after)
    /\ UNCHANGED <<envOk, frames, epoch, reconnectTimers, isConnected,
                   schedVars, evalVars, clientVars, routeVars,
                   tournVars>>

\* Malformed with the parse error rejecting every pending call
MalformedRejectsPending ==
    /\ wsState = "open"
    /\ frames' = frames \cup {"malformed"}
    /\ pending' = {}
    /\ calls' = [id \in DOMAIN calls |->
                    IF id \in pending
                    THEN [calls[id] EXCEPT !.delivered = @ + 1]
                    ELSE calls[id]]
    /\ UNCHANGED <<envOk, signalsLeft, wsState, epoch, reconnectTimers,
                   isConnected, sessionId, authToken, sessionOpen, timers,
                   wire, schedVars, evalVars, clientVars, routeVars,
                   tournVars>>

\* A frame that is not JSON: JSON.parse throws, 'Invalid JSON from
\* ClearNode' is logged and handleIncoming returns.
Malformed ==
    /\ wsState = "open"
    /\ frames' = frames \cup {"malformed"}
    /\ UNCHANGED <<envOk, signalsLeft, wsState, epoch, reconnectTimers,
                   isConnected, sessionId, authToken, sessionOpen, pending,
                   timers, wire, calls, schedVars, evalVars, clientVars, routeVars,
                   tournVars>>

\* A JSON frame with no id (id 0 here) or with an id that is not in the
\* pending table and that the node owes no answer for: the test
\* msg.id && this.pending.has(msg.id) fails and nothing is done.
Unsolicited(id) ==
    /\ wsState = "open"
    /\ id \notin pending
    /\ id \notin wire
    /\ frames' = frames \cup {"unsolicited"}
    /\ UNCHANGED <<envOk, signalsLeft, wsState, epoch, reconnectTimers,
                   isConnected, sessionId, authToken, sessionOpen, pending,
                   timers, wire, calls, schedVars, evalVars, clientVars, routeVars,
                   tournVars>>

\* getSessionOpen()
GetSessionOpen == sessionOpen

\* ------------------------------------------- the browser's gateway client
\* YellowNetworkClient.connect(): a new WebSocket, assigned to this.ws
\* whatever this.ws held.
ClientConnect ==
    /\ Len(clientSockets) < MaxSockets
    /\ clientSockets' = Append(clientSockets, "connecting")
    /\ clientWs' = Len(clientSockets) + 1

\* The effect of a mounted useYellowNetwork(): isInitialized is the state
\* of that component, so each component calls connect() on the singleton.
HookEffect(h) ==
    /\ h \notin clientHooks
    /\ clientHooks' = clientHooks \cup {h}
    /\ ClientConnect
    /\ UNCHANGED <<clientIsConnected, clientTimers, schedVars, evalVars,
                   gwVars, routeVars, submitVars,
                   tournVars>>

\* The 5 s timer an onclose set fires: connect() again.
ClientReconnect ==
    /\ clientTimers > 0
    /\ clientTimers' = clientTimers - 1
    /\ ClientConnect
    /\ UNCHANGED <<clientIsConnected, clientHooks, schedVars, evalVars,
                   gwVars, routeVars, submitVars,
                   tournVars>>

\* ws.onopen of socket s
ClientOnOpen(s) ==
    /\ s \in DOMAIN clientSockets
    /\ clientSockets[s] = "connecting"
    /\ clientSockets' = [clientSockets EXCEPT ![s] = "open"]
    /\ clientIsConnected' = TRUE
    /\ UNCHANGED <<clientWs, clientTimers, clientHooks, schedVars, evalVars,
                   gwVars, routeVars, submitVars,
                   tournVars>>

\* ws.onclose of socket s (after a failed handshake or a drop): the flag
\* is cleared and a reconnect is scheduled.
ClientOnClose(s) ==
    /\ s \in DOMAIN clientSockets
    /\ clientSockets[s] \in {"connecting", "open"}
    /\ clientSockets' = [clientSockets EXCEPT ![s] = "closed"]
    /\ clientIsConnected' = FALSE
    /\ clientTimers' = clientTimers + 1
    /\ clientWire' = {id \in clientWire : clientCalls[id].socket # s}
    /\ UNCHANGED <<clientWs, clientHooks, messageHandlers, clientCalls,
                   schedVars, evalVars, gwVars, routeVars,
                   tournVars>>

\* The promise of call id settles (once): how, and for "resolved" with
\* the predictionId of which call's response.
Settle(id, how, of) ==
    [clientCalls EXCEPT ![id].outcome = IF @ = Null THEN <<how, of>> ELSE @]

\* YellowNetworkClient.submitPrediction: rejected at once when the flag or
\* this.ws is unset; else its responseHandler replaces whatever is under
\* 'prediction_submitted' and the message goes to this.ws, which throws
\* while that socket is still connecting and drops it once it is closed.
ClientSubmitPrediction ==
    /\ Len(clientCalls) < MaxSubmits
    /\ LET id == Len(clientCalls) + 1
           call(o) == [socket |-> clientWs, outcome |-> o]
       IN  IF ~clientIsConnected \/ clientWs = 0
           THEN /\ clientCalls' = Append(clientCalls, call(<<"notConnected", 0>>))
                /\ UNCHANGED <<messageHandlers, clientWire>>
           ELSE /\ messageHandlers' = id
                /\ clientCalls' =
                      Append(clientCalls,
                             call(IF clientSockets[clientWs] = "connecting"
                                  THEN <<"sendThrew", 0>> ELSE Null))
                /\ clientWire' =
                      IF clientSockets[clientWs] = "open"
                      THEN clientWire \cup {id} ELSE clientWire
    /\ UNCHANGED <<clientSockets, clientWs, clientIsConnected, clientTimers,
                   clientHooks, schedVars, evalVars, gwVars, routeVars,
                   tournVars>>

\* ws.onmessage -> handleMessage with the 'prediction_submitted' message
\* that answers call id (it carries that call's predictionId): the handler
\* under that type runs, whichever call registered it.
ClientHandleMessage(id) ==
    /\ id \in clientWire
    /\ clientWire' = clientWire \ {id}
    /\ clientCalls' = IF messageHandlers = 0
                      THEN clientCalls
                      ELSE Settle(messageHandlers, "resolved", id)
    /\ UNCHANGED <<messageHandlers, clientSockets, clientWs, clientIsConnected,
                   clientTimers, clientHooks, schedVars, evalVars, gwVars,
                   routeVars,
                   tournVars>>

\* The 30 s timer of call id fires with its promise still pending.
ClientSubmitTimeout(id) ==
    /\ id \in DOMAIN clientCalls
    /\ clientCalls[id].outcome = Null
    /\ clientCalls' = Settle(id, "timeout", 0)
    /\ UNCHANGED <<messageHandlers, clientWire, clientSockets, clientWs,
                   clientIsConnected, clientTimers, clientHooks, schedVars,
                   evalVars, gwVars, routeVars,
                   tournVars>>

\* -------------------------------------------------------- specifications
NewUser ==
    [totalPredictions |-> 0, correctPredictions |-> 0, currentStreak |-> 0,
     maxStreak |-> 0]

InitSched ==
    /\ clock = 0
    /\ predictions = <<>>
    /\ submitting = {}
    /\ users = [u \in Users |-> NewUser]
    /\ ticks = [t \in Ticks |-> IdleTick]
    /\ settledEvents = [i \in 1..MaxPreds |-> 0]
    /\ writeBacks = [i \in 1..MaxPreds |-> 0]
    /\ statsUpdates = [i \in 1..MaxPreds |-> 0]
    /\ settleErrors = {}

InitEvalIdle ==
    /\ evalIn = CHOOSE e \in EvalInputs : TRUE
    /\ evalOut = Null
    /\ evalAgain = Null

\* The service right after its constructor ran connect().
InitGw ==
    /\ envOk \in BOOLEAN
    /\ \/ wsState = "connecting" /\ epoch = 1 /\ reconnectTimers = 0
       \/ wsState = "none" /\ epoch = 1 /\ reconnectTimers = 1
    /\ isConnected = FALSE
    /\ sessionId = Null
    /\ authToken = Null
    /\ sessionOpen = FALSE
    /\ signalsLeft = 2
    /\ frames = {}
    /\ pending = {}
    /\ timers = {}
    /\ wire = {}
    /\ calls = <<>>

InitGwIdle ==
    /\ InitGw
    /\ envOk
    /\ wsState = "connecting"

\* A seeded tournament that ends at instant endTime.
SeedTournament(endTime) ==
    [status |-> "active", endTime |-> endTime, currentParticipants |-> 0,
     distributions |-> 0]

\* The seeded tournaments end days after start-up: beyond the instants
\* the other specifications cover.
InitTournamentsFar ==
    tournaments = [id \in TournamentIds |-> SeedTournament(MaxTime + 1)]

InitRoute ==
    /\ submittedEvents = [i \in 1..MaxPreds |-> 0]
    /\ returned = {}

\* The module-level singleton yellowNetworkClient, no component mounted.
InitClient ==
    /\ clientSockets = <<>>
    /\ clientWs = 0
    /\ clientIsConnected = FALSE
    /\ clientTimers = 0
    /\ clientHooks = {}
    /\ messageHandlers = 0
    /\ clientCalls = <<>>
    /\ clientWire = {}

Init ==
    /\ InitSched
    /\ InitEvalIdle
    /\ InitGwIdle
    /\ InitClient
    /\ InitRoute
    /\ InitTournamentsFar

NextSched ==
    \/ \E ins \in PredictionInputs : CreatePrediction(ins)
    \/ \E t \in Ticks : TickStart(t)
    \/ \E t \in Ticks : OracleFails(t)
    \/ \E t \in Ticks : OracleAnswers(t)
    \/ \E t \in Ticks : GatewayReturns(t)
    \/ \E t \in Ticks : GatewayThrows(t)
    \/ Advance

\* The scheduler over the store; the submission route's gateway call stays
\* unanswered here (its answer only sets stateChannelTx, see SpecRoute).
SpecSched == Init /\ [][NextSched]_vars

NextRoute ==
    \/ NextSched
    \/ \E id \in 1..MaxPreds : SubmitReturns(id)
    \/ \E id \in 1..MaxPreds : SubmitThrows(id)

\* The scheduler together with the answers to the submission route.
SpecRoute == Init /\ [][NextRoute]_vars

InitEval ==
    /\ InitSched
    /\ InitGwIdle
    /\ InitClient
    /\ InitRoute
    /\ InitTournamentsFar
    /\ evalIn \in EvalInputs
    /\ evalOut = Null
    /\ evalAgain = Null

NextEval ==
    \/ Evaluate
    \/ EvaluateAgain

\* The isCorrect switch on every input of EvalInputs.
SpecEval == InitEval /\ [][NextEval]_vars

InitGateway ==
    /\ InitSched
    /\ InitEvalIdle
    /\ InitGw
    /\ InitClient
    /\ InitRoute
    /\ InitTournamentsFar

NextGateway ==
    \/ Connect
    \/ OnOpen
    \/ OnClose
    \/ \E id \in 1..MaxCalls, kind \in ResponseKinds, token \in BOOLEAN :
          HandleIncoming(id, kind, token)
    \/ \E id \in 1..MaxCalls : Timeout(id)
    \/ AppCall
    \/ Shutdown

\* The gateway under any schedule of socket events, node answers, timers
\* and callers.
SpecGateway == InitGateway /\ [][NextGateway]_vars

NextFrames ==
    \/ NextGateway
    \/ Malformed
    \/ \E id \in 0..MaxCalls : Unsolicited(id)

\* The gateway with, besides, the frames handleIncoming lets drop (they
\* change nothing but the record that they came).
SpecFrames == InitGateway /\ [][NextFrames]_vars

\* The store with no predictions and the seeded tournaments ending
\* within the instants covered.
InitTournament ==
    /\ InitSched
    /\ InitEvalIdle
    /\ InitGwIdle
    /\ InitClient
    /\ InitRoute
    /\ \E e1, e2 \in 1..MaxTime :
          tournaments = [id \in TournamentIds |->
                            SeedTournament(IF id = "weekly" THEN e1 ELSE e2)]

NextTournament ==
    \/ \E t \in Ticks : TickStart(t)
    \/ \E id \in TournamentIds : JoinTournament(id)
    \/ Advance

\* The scheduler's callbacks over the tournaments, no prediction stored.
SpecTournament == InitTournament /\ [][NextTournament]_vars

\* The interval keeps firing.
FairTournament == WF_vars(\E t \in Ticks : TickStart(t))

SpecTournamentFair == SpecTournament /\ FairTournament

NextClient ==
    \/ \E h \in Hooks : HookEffect(h)
    \/ ClientReconnect
    \/ \E s \in 1..MaxSockets : ClientOnOpen(s)
    \/ \E s \in 1..MaxSockets : ClientOnClose(s)
    \/ ClientSubmitPrediction
    \/ \E id \in 1..MaxSubmits : ClientHandleMessage(id)
    \/ \E id \in 1..MaxSubmits : ClientSubmitTimeout(id)

\* The browser's client alone, the server at rest.
SpecClient == Init /\ [][NextClient]_vars

\* The gateway call of a callback ends within its timers, and an oracle
\* lookup returns or throws, except that the lookup for contract 1 need
\* not ever do either: fetch() is given no timeout.
FairSched ==
    \A t \in Ticks :
        /\ WF_vars(GatewayReturns(t) \/ GatewayThrows(t))
        /\ WF_vars(/\ OracleAnswers(t) \/ OracleFails(t)
                   /\ Head(ticks[t].queue) # 1)

SpecSchedFair == SpecSched /\ FairSched

\* Timers fire, a connecting socket opens unless it closes first, the
\* node answers what it received unless the socket closes first, and a
\* socket that close() was called on does close.  Nothing else obliges a
\* socket to close, a caller to call or a signal to come.
FairGateway ==
    /\ WF_vars(Connect)
    /\ WF_vars(wsState = "closing" /\ OnClose)
    /\ WF_vars(OnOpen)
    /\ WF_vars(\E id \in 1..MaxCalls : Timeout(id))
    /\ WF_vars(\E id \in 1..MaxCalls, kind \in ResponseKinds,
                  token \in BOOLEAN : HandleIncoming(id, kind, token))

SpecGatewayFair == SpecGateway /\ FairGateway

\* ================================================================ claims
Running(t) == ticks[t].pc # "idle"

Settled(i) == predictions[i].isCorrect # Null

\* C3: a contract goes from Pending to Settled at most once: over any runs
\* of the scheduler, overlapping ones included, the write-back and the
\* owner's statistics update are applied at most once per contract id, and
\* a contract is Settled exactly when its one write-back was applied.
C3_SettledAtMostOnce ==
    \A i \in 1..MaxPreds :
        /\ writeBacks[i] <= 1
        /\ statsUpdates[i] <= 1
        /\ i \in DOMAIN predictions => (Settled(i) <=> writeBacks[i] = 1)

\* Two callbacks are in progress at once and a contract has been settled.
C3_Witness ==
    /\ \A t \in Ticks : Running(t)
    /\ \E i \in DOMAIN predictions : Settled(i) /\ writeBacks[i] = 1

\* C4: a running callback has selected every stored prediction that is
\* still Pending and whose expiresAt is at or before the callback's now.
C4_TickSelectsEveryDue ==
    \A t \in Ticks :
        Running(t) =>
            \A i \in DOMAIN predictions :
                (~Settled(i) /\ predictions[i].expiresAt <= ticks[t].now)
                    => i \in Range(ticks[t].queue)

\* C5: when a callback ends, every contract it had selected whose oracle
\* lookup does not fail has been settled by it, whatever the order.
C5_FailureIsolated ==
    [][\A t \in Ticks :
          (Running(t) /\ ~Running(t)')
              => \A b \in Range(ticks[t].queue) \ ticks[t].fails :
                    predictions'[b].isCorrect # Null]_vars

\* C8: a price-target contract is correct exactly when
\* |actualPrice - targetPrice| <= 0.02 * targetPrice, the boundary included;
\* target 100 with 101.5 is correct, with 103 it is not.
C8_PriceTargetTolerance ==
    (/\ evalOut # Null
     /\ evalIn.predictionType = "price_target"
     /\ evalIn.targetPrice # Null)
    => LET target == evalIn.targetPrice[1] * 100 + evalIn.targetPrice[2]
           actual == evalIn.currentPrice
       IN  /\ evalOut[1] <=> (Abs(actual - target) * 50 <= target)
           /\ (target = 10000 /\ actual = 10150) => evalOut[1]
           /\ (target = 10000 /\ actual = 10200) => evalOut[1]
           /\ (target = 10000 /\ actual = 10300) => ~evalOut[1]

\* Target 100 evaluated against 101.5: correct.
C8_Witness ==
    /\ evalOut = <<TRUE>>
    /\ evalIn.predictionType = "price_target"
    /\ evalIn.targetPrice = <<100, 0>>
    /\ evalIn.currentPrice = 10150

\* C9: an above-below contract is correct exactly when (direction up and
\* actualPrice > targetPrice) or (direction down and actualPrice <
\* targetPrice); equality and any other direction give false.
C9_AboveBelowRule ==
    (/\ evalOut # Null
     /\ evalIn.predictionType = "above_below"
     /\ evalIn.targetPrice # Null)
    => LET target == evalIn.targetPrice[1] * 100 + evalIn.targetPrice[2]
           actual == evalIn.currentPrice
       IN  evalOut[1] <=> \/ evalIn.direction = "up" /\ actual > target
                          \/ evalIn.direction = "down" /\ actual < target

\* C10: a contract of kind direction stays Pending: the scheduler writes
\* none of isCorrect, actualPrice, settledAt for it.
C10_DirectionNeverSettled ==
    \A i \in DOMAIN predictions :
        predictions[i].predictionType = "direction"
            => /\ predictions[i].isCorrect = Null
               /\ predictions[i].actualPrice = Null
               /\ predictions[i].settledAt = Null

\* C1: every call of request() gets at most one outcome, and once its
\* outcome has been delivered the pending table holds no entry for its id.
C1_SingleOutcome ==
    \A id \in DOMAIN calls :
        /\ calls[id].delivered <= 1
        /\ calls[id].delivered = 1 => id \notin pending

\* C2: handling the close of an open connection resolves every outstanding
\* call: right after the close handler the pending table is empty and no
\* call is left without an outcome.
C2_CloseFailsPending ==
    [][(wsState = "open" /\ wsState' = "closed")
          => /\ pending' = {}
             /\ \A id \in DOMAIN calls' : calls'[id].delivered >= 1]_vars

\* C6: a session id or auth token is visible only while the connection on
\* which it was obtained is open (or being closed, its close event not yet
\* handled); once that connection has closed, and while and after the next
\* one is set up, neither is visible.
C6_NoStaleSession ==
    /\ sessionId # Null
          => (wsState \in {"open", "closing"} /\ sessionId = <<epoch>>)
    /\ authToken # Null
          => (wsState \in {"open", "closing"} /\ authToken = <<epoch>>)

\* A session was opened on the first connection; the second connection is
\* open, its initiation under way, and neither id nor token is left.
C6_Witness ==
    /\ epoch = 2
    /\ wsState = "open"
    /\ sessionOpen
    /\ sessionId = Null
    /\ authToken = Null
    /\ \E id \in pending : calls[id].cont = "challenge"

\* C7: getSessionOpen() is false whenever the connection is not Connected
\* or there is no session id.
C7_ReadyOnlyWithSession ==
    (~isConnected \/ sessionId = Null) => ~GetSessionOpen

\* C11: the isCorrect written at settlement is a function of the contract's
\* kind, targetPrice and direction and of the observed price: two runs of
\* the switch on the same contract and price give the same isCorrect.
C11_Deterministic ==
    (evalOut # Null /\ evalAgain # Null) => evalAgain = evalOut

\* C12: submitPrediction or settlePrediction called while a session is open
\* (there is a session id) makes exactly one call, the application message:
\* no session_open is sent.
C12_NoRedundantSessionOpen ==
    [][(sessionId # Null /\ AppCall)
          => /\ Len(calls') = Len(calls) + 1
             /\ Method(calls'[Len(calls')].cont) = "app_message"
             /\ \A id \in DOMAIN calls' \ DOMAIN calls :
                   Method(calls'[id].cont) # "session_open"]_vars

\* An application message is under way on the session that initiation
\* opened; no lazy session_open was ever sent.
C12_Witness ==
    /\ sessionId # Null
    /\ \E id \in pending : calls[id].cont = "app" /\ calls[id].delivered = 0
    /\ \A id \in DOMAIN calls : calls[id].cont # "openLazy"

Disconnected == wsState \in {"none", "closed"}

\* C13: whenever the gateway is disconnected (its socket closed, or never
\* created because connect() failed) a reconnect timer is pending, and
\* connect() eventually runs again.
C13_AlwaysRetries ==
    /\ [](Disconnected => reconnectTimers > 0)
    /\ \A n \in 1..(MaxConns - 1) :
          (Disconnected /\ epoch = n) ~> (epoch > n)

\* The first connection was open and has closed; connect() ran again.
C13_Witness ==
    /\ epoch = 2
    /\ wsState = "connecting"
    /\ \E id \in DOMAIN calls :
          calls[id].cont = "challenge" /\ calls[id].conn = 1

\* The calls a step adds.
NewCalls == DOMAIN calls' \ DOMAIN calls

\* The full answer to a call of caller cont arrives on the open connection.
Succeeds(cont) ==
    \E id \in DOMAIN calls, token \in BOOLEAN :
        /\ calls[id].cont = cont
        /\ calls[id].conn = epoch
        /\ HandleIncoming(id, "full", token)

\* Call i was made after a call of caller cont, on the same connection,
\* had got its outcome.
Follows(i, cont) ==
    \E k \in 1..(i - 1) :
        /\ calls[k].cont = cont
        /\ calls[k].conn = calls[i].conn
        /\ calls[k].delivered = 1

\* In a step: entering Connected makes the one auth_challenge call, no
\* other step makes one, and auth_verify and initiation's session_open are
\* called only on the full answer to the step before.
InitiationStep ==
    /\ (wsState # "open" /\ wsState' = "open" /\ envOk)
          => /\ Cardinality(NewCalls) = 1
             /\ \A id \in NewCalls : calls'[id].cont = "challenge"
    /\ ~(wsState # "open" /\ wsState' = "open")
          => \A id \in NewCalls : calls'[id].cont # "challenge"
    /\ \A id \in NewCalls :
          /\ calls'[id].cont = "verify" => Succeeds("challenge")
          /\ calls'[id].cont = "openInit" => Succeeds("verify")

\* C14: every transition into Connected starts initiation once (one
\* auth_challenge call, and no step but that one makes such a call); the
\* auth_verify call is made only when the challenge call returns its
\* challenge, initiation's session_open only when the verify call returns
\* success; so on each connection the three come in that order, each once
\* the one before has its answer.
C14_InitiationInOrder ==
    /\ [][InitiationStep]_vars
    /\ [](\A i \in DOMAIN calls :
            /\ calls[i].cont = "challenge"
                => \A k \in DOMAIN calls \ {i} :
                      ~(/\ calls[k].cont = "challenge"
                        /\ calls[k].conn = calls[i].conn)
            /\ calls[i].cont = "verify" => Follows(i, "challenge")
            /\ calls[i].cont = "openInit" => Follows(i, "verify"))

\* Initiation ran to its end on the first connection: challenge, verify,
\* session_open, each answered, and the session is open.
C14_Witness ==
    /\ Len(calls) = 3
    /\ calls[1].cont = "challenge" /\ calls[1].delivered = 1
    /\ calls[2].cont = "verify" /\ calls[2].delivered = 1
    /\ calls[3].cont = "openInit" /\ calls[3].delivered = 1
    /\ sessionId = <<epoch>>
    /\ sessionOpen

\* A step of initiation on the open connection fails: the answer to its
\* call lacks what the step reads, cannot be decoded or cannot be signed,
\* or the call times out.
InitiationFails ==
    \E id \in pending :
        /\ calls[id].cont \in {"challenge", "verify", "openInit"}
        /\ calls[id].conn = epoch
        /\ wsState = "open"
        /\ \/ \E kind \in ResponseKinds \ {"full"}, token \in BOOLEAN :
                 HandleIncoming(id, kind, token)
           \/ Timeout(id)

\* C15: when a step of initiation fails, no later step is issued and the
\* session state afterwards is NoSession: no session id, no stored auth
\* token, not ready.  (Stated for gateways whose callers opened no session
\* of their own.)
C15_FailedInitiationLeavesNoSession ==
    [][(InitiationFails /\ \A id \in DOMAIN calls : calls[id].cont # "openLazy")
          => /\ NewCalls = {}
             /\ sessionId' = Null
             /\ authToken' = Null
             /\ ~GetSessionOpen']_vars

\* Authentication has failed on the open connection: its auth_challenge
\* call, and its auth_verify call if one was made, got their outcome and
\* initiation went no further (it made no session_open call).
AuthFailed ==
    /\ wsState = "open"
    /\ \E id \in DOMAIN calls :
          calls[id].cont = "challenge" /\ calls[id].conn = epoch
    /\ \A id \in DOMAIN calls :
          calls[id].conn = epoch
              => /\ calls[id].cont \in {"challenge", "verify"}
                       => calls[id].delivered = 1
                 /\ calls[id].cont # "openInit"

\* C16: after an authentication failure a later reconnect cycle begins
\* without anything outside the gateway acting: connect() eventually runs
\* again, which is what re-runs initiation.
C16_AuthFailureRecovers ==
    \A n \in 1..(MaxConns - 1) :
        (AuthFailed /\ epoch = n) ~> (epoch > n)

\* C17: when the remote settlement submission of a contract fails, its
\* local settlement record is committed, its settled event is still
\* emitted, and the callback goes on with the rest of its batch.
C17_SubmissionFailureKeepsSettlement ==
    [][\A t \in Ticks :
          GatewayThrows(t)
              => LET id == Head(ticks[t].queue)
                     rest == Tail(ticks[t].queue)
                 IN  /\ predictions'[id].isCorrect # Null
                     /\ predictions'[id].actualPrice # Null
                     /\ predictions'[id].settledAt # Null
                     /\ settledEvents'[id] = settledEvents[id] + 1
                     /\ rest # <<>>
                           => /\ ticks'[t].pc = "oracle"
                              /\ ticks'[t].queue = rest]_vars

\* The submission of contract 1 failed; it is settled, its event is out
\* and the same callback is at the next contract of its batch.
C17_Witness ==
    /\ 1 \in settleErrors
    /\ Settled(1)
    /\ settledEvents[1] = 1
    /\ \E t \in Ticks : ticks[t].pc = "oracle" /\ ticks[t].queue = <<2>>

\* C18: a callback calls settlePrediction for a contract only in the step
\* that takes it from Pending to Settled with its one write-back; so no
\* callback submits a contract that is already Settled, whatever became of
\* the submission made at settlement, and no contract is submitted twice.
C18_SettleSubmittedOnce ==
    [][\A t \in Ticks :
          (ticks[t].pc # "gateway" /\ ticks'[t].pc = "gateway")
              => LET id == Head(ticks'[t].queue)
                 IN  /\ predictions[id].isCorrect = Null
                     /\ predictions'[id].isCorrect # Null
                     /\ writeBacks'[id] = 1]_vars

\* Contract 1 is Settled and its submission failed; a later callback is
\* running and has not selected it.
C18_Witness ==
    /\ 1 \in settleErrors
    /\ Settled(1)
    /\ \E t \in Ticks :
          /\ Running(t)
          /\ ticks[t].now > predictions[1].settledAt[1]
          /\ 1 \notin Range(ticks[t].queue)

\* C19: when settlePrediction returns a receipt id (txId), the contract's
\* stored record holds that receipt id afterwards.
C19_ReceiptRecorded ==
    [][\A t \in Ticks :
          GatewayReturns(t)
              => predictions'[Head(ticks[t].queue)].stateChannelTx = <<"txId">>]_vars

\* C20: an oracle lookup that never returns for one contract (here
\* contract 1) does not stall the callback: the other contracts of its
\* batch, whose lookups do return, are eventually settled.
C20_HangDoesNotStallTick ==
    \A t \in Ticks, b \in 2..MaxPreds :
        (/\ Running(t)
         /\ ticks[t].fails = {}
         /\ b \in Range(ticks[t].queue))
            ~> (b \in DOMAIN predictions /\ Settled(b))

\* closeAppSession returns: at once, there being no session id, or with
\* the outcome of its session_close call (an answer of any kind, or the
\* timeout).
CloseReturns ==
    \/ Shutdown /\ sessionId = Null
    \/ \E id \in pending :
          /\ calls[id].cont = "close"
          /\ \/ \E kind \in ResponseKinds, token \in BOOLEAN :
                   HandleIncoming(id, kind, token)
             \/ Timeout(id)

\* C21: when closeAppSession returns, whatever became of its session_close
\* call, the local session state is reset: no session id, not ready.
C21_CloseResetsSession ==
    [][CloseReturns => (sessionId' = Null /\ ~GetSessionOpen')]_vars

C23_TimeoutIsPerCall ==
    [][\A x \in pending :
          Timeout(x)
              => /\ pending' = pending \ {x}
                 /\ calls'[x].delivered = calls[x].delivered + 1
                 /\ \A y \in DOMAIN calls \ {x} : calls'[y] = calls[y]
                 /\ NewCalls = {}
                 /\ timers' = timers \ {x}
                 /\ wire' = wire]_vars

\* Call x has timed out (it got its outcome and no answer came for it)
\* while call y, on the same open connection, is pending with its answer
\* still to come.
C23_Witness ==
    /\ wsState = "open"
    /\ \E x \in wire, y \in wire :
          /\ x # y
          /\ calls[x].delivered = 1
          /\ x \notin pending
          /\ y \in pending
          /\ calls[y].delivered = 0

\* The answer to pending call x resolves x and no other call.
ResolvesOnlyItsCall ==
    \A x \in pending, kind \in ResponseKinds, token \in BOOLEAN :
        HandleIncoming(x, kind, token)
            => /\ calls'[x].delivered = calls[x].delivered + 1
               /\ x \notin pending'
               /\ \A y \in DOMAIN calls \ {x} :
                     /\ calls'[y] = calls[y]
                     /\ y \in pending => y \in pending'

\* C24: with several calls outstanding, the answer to any one of them can
\* be taken at once, whatever calls made earlier are still waiting, and it
\* resolves exactly the call whose id it carries.
C24_AnyOrderNoBlocking ==
    /\ [](wsState = "open"
            => \A x \in pending \cap wire :
                  ENABLED HandleIncoming(x, "partial", FALSE))
    /\ [][ResolvesOnlyItsCall]_vars

\* A call made later has been resolved by its answer while a call made
\* before it, on the same connection, is still waiting for its own.
C24_Witness ==
    /\ wsState = "open"
    /\ \E x \in pending \cap wire, y \in DOMAIN calls :
          /\ x < y
          /\ calls[x].delivered = 0
          /\ calls[y].conn = calls[x].conn
          /\ calls[y].delivered = 1
          /\ y \notin wire
          /\ y \in timers

\* A frame arrives that matches no pending call: it has no id, an id the
\* table does not hold, or it is the late answer to a call that already
\* got its outcome.
UnmatchedFrame ==
    \/ \E id \in 0..MaxCalls : Unsolicited(id)
    \/ \E x \in wire \ pending, kind \in ResponseKinds, token \in BOOLEAN :
          HandleIncoming(x, kind, token)

\* C25: a frame that matches no pending call resolves no call and leaves
\* the pending table, the session state and the connection state as they
\* were.
C25_UnmatchedFrameIgnored ==
    [][UnmatchedFrame
          => UNCHANGED <<pending, calls, timers, sessionId, authToken,
                         sessionOpen, wsState, isConnected>>]_vars

\* A frame matching no pending call has come while a call was waiting for
\* its answer, and that call is still waiting.
C25_Witness ==
    /\ "unsolicited" \in frames
    /\ wsState = "open"
    /\ \E x \in pending \cap wire : calls[x].delivered = 0 /\ x \in timers

\* C26: a frame that cannot be parsed is dropped: it gives no call an
\* outcome and changes neither the pending table nor the connection, and
\* the answers that come after it are still taken.
C26_MalformedFrameDropped ==
    /\ [][Malformed
             => UNCHANGED <<pending, calls, timers, wire, sessionId, authToken,
                            sessionOpen, wsState, isConnected,
                            reconnectTimers>>]_vars
    /\ []((wsState = "open" /\ "malformed" \in frames)
            => \A x \in pending \cap wire :
                  ENABLED HandleIncoming(x, "full", FALSE)
                    \/ ENABLED HandleIncoming(x, "partial", FALSE))

\* After a frame that could not be parsed, a call is still pending on the
\* open connection and another has been resolved by its answer.
C26_Witness ==
    /\ "malformed" \in frames
    /\ wsState = "open"
    /\ \E x \in pending \cap wire : calls[x].delivered = 0
    /\ \E y \in timers \ wire :
          calls[y].delivered = 1 /\ calls[y].conn = epoch

\* Callback t has written contract i back and is waiting for the outcome
\* of its settlePrediction call.
Submitting(t, i) ==
    /\ ticks[t].pc = "gateway"
    /\ Head(ticks[t].queue) = i

\* The write-back of contract i: it comes before the contract's event and
\* leads straight to the submission attempt.
WriteBackStep(i) ==
    writeBacks'[i] # writeBacks[i]
        => /\ settledEvents[i] = 0
           /\ \E t \in Ticks : ticks'[t].pc = "gateway"
                                /\ Head(ticks'[t].queue) = i

\* The settled event of contract i: it is emitted by the callback that
\* wrote the contract back, when its submission attempt ends either way.
BroadcastStep(i) ==
    settledEvents'[i] # settledEvents[i]
        => /\ writeBacks[i] = 1
           /\ predictions[i].settledAt # Null
           /\ \E t \in Ticks : /\ Submitting(t, i)
                                /\ (GatewayReturns(t) \/ GatewayThrows(t))

\* C27: a contract is written back, then its submission is attempted, then
\* its settled event is emitted; a settled contract whose submission
\* attempt has ended has exactly one settled event, and a contract that was
\* not written back has none.
C27_WriteBackSubmitBroadcast ==
    /\ [][\A i \in 1..MaxPreds : WriteBackStep(i) /\ BroadcastStep(i)]_vars
    /\ [](\A i \in 1..MaxPreds :
             /\ settledEvents[i] <= writeBacks[i]
             /\ settledEvents[i] <= 1
             /\ (i \in DOMAIN predictions /\ Settled(i))
                   => \/ settledEvents[i] = 1
                      \/ \E t \in Ticks : Submitting(t, i))

\* Contract 1 went through write-back, a failed submission and its event;
\* contract 2 is written back and its submission is under way, its event
\* not yet out.
C27_Witness ==
    /\ 1 \in settleErrors
    /\ writeBacks[1] = 1
    /\ settledEvents[1] = 1
    /\ writeBacks[2] = 1
    /\ settledEvents[2] = 0
    /\ \E t \in Ticks : Submitting(t, 2)

\* The sockets of the browser's client that are connecting or open.
ClientLive ==
    {s \in DOMAIN clientSockets : clientSockets[s] \in {"connecting", "open"}}

\* The server's gateway keeps to one socket and one reconnect timer: a
\* timer is pending only while no socket is connecting, open or closing.
GatewaySingleConnection ==
    /\ reconnectTimers <= 1
    /\ wsState \in {"connecting", "open", "closing"} => reconnectTimers = 0

\* C28: a gateway instance has at most one socket connecting or open and
\* at most one reconnect timer pending at any time.
C28_SingleConnection ==
    /\ Cardinality(ClientLive) <= 1
    /\ clientTimers <= 1

\* The session_open calls sent on the current connection and still waiting
\* for their answer.
OpenCallsInFlight ==
    {id \in pending : /\ calls[id].cont \in {"openInit", "openLazy"}
                      /\ calls[id].conn = epoch
                      /\ calls[id].delivered = 0}

\* C29: whatever submitPrediction/settlePrediction calls run while no
\* session is open or while initiation is in progress, at most one
\* session_open call is in flight on a connection.
C29_OneSessionOpenPerConnection ==
    Cardinality(OpenCallsInFlight) <= 1

\* The price getCurrentPrice puts in place of the one the oracle's answer
\* lacks, as the write-back stores it.
SubstitutePrice == ToFixed(GetCurrentPrice(Null))

\* C30: a contract for whose asset the oracle's answer holds no price is
\* not settled: no stored record has the substitute price as its
\* actualPrice (the oracle's own prices are all above 0).
C30_NoPriceNoSettlement ==
    \A i \in DOMAIN predictions :
        predictions[i].actualPrice # SubstitutePrice

\* One step of the submission route, seen from prediction i: the gateway
\* is contacted for i only by the step that creates its record, the
\* receipt is stored only by the step in which the submission returned,
\* and a failed submission leaves the record as created, sends it back and
\* does not submit again.
RouteStep(i) ==
    /\ (i \in submitting' /\ i \notin submitting)
          => /\ i \notin DOMAIN predictions
             /\ i \in DOMAIN predictions'
             /\ i \notin returned'
    /\ (i \in DOMAIN predictions
           /\ predictions'[i].stateChannelTx # predictions[i].stateChannelTx)
          => SubmitReturns(i)
    /\ SubmitThrows(i)
          => /\ predictions' = predictions
             /\ submittedEvents' = submittedEvents
             /\ i \in returned'
             /\ i \notin submitting'

C32_FailedSendLeavesNoEntry ==
    [][\A id \in NewCalls :
          calls'[id].delivered = 1 => id \notin pending']_vars

\* auth verify has succeeded on the current connection: authenticate()
\* returned, which is when onopen goes on to its own session_open.
Verified ==
    \E v \in DOMAIN calls' :
        calls'[v].cont = "openInit" /\ calls'[v].conn = epoch'

\* C33: a session_open call is put on a connection only after auth verify
\* succeeded on that connection, the lazy session-open of
\* submitPrediction/settlePrediction included.
C33_NoSessionOpenBeforeAuth ==
    [][\A id \in NewCalls :
          (calls'[id].cont \in {"openInit", "openLazy"} /\ id \in wire')
              => Verified]_vars

\* C34: whenever a callback writes actualPrice, isCorrect and settledAt
\* for a contract, the contract's expiresAt is at or before the time that
\* callback read, which is the settledAt it writes.
C34_NeverSettledBeforeExpiry ==
    /\ [][\A i \in DOMAIN predictions :
             writeBacks'[i] # writeBacks[i]
                => \E t \in Ticks :
                      /\ ticks[t].pc = "oracle"
                      /\ Head(ticks[t].queue) = i
                      /\ predictions[i].expiresAt <= ticks[t].now
                      /\ predictions'[i].settledAt = <<ticks[t].now>>
                      /\ predictions'[i].expiresAt = predictions[i].expiresAt]_vars
    /\ [](\A i \in DOMAIN predictions :
             Settled(i) => predictions[i].expiresAt <= predictions[i].settledAt[1])

\* Contract 1 was settled at or after its expiry by a callback that is now
\* waiting on its submission; contract 2, which expires later than the
\* time that callback read, has not been written.
C34_Witness ==
    /\ Len(predictions) = 2
    /\ Settled(1)
    /\ predictions[1].expiresAt <= predictions[1].settledAt[1]
    /\ ~Settled(2)
    /\ writeBacks[2] = 0
    /\ \E t \in Ticks :
          /\ Submitting(t, 1)
          /\ predictions[2].expiresAt > ticks[t].now

\* The contracts of user u that are Settled.
SettledOf(u) ==
    {i \in DOMAIN predictions : predictions[i].userId = u /\ Settled(i)}

\* C35: at all times a user's correctPredictions is at most
\* totalPredictions, currentStreak is at most maxStreak, and
\* totalPredictions (0 at first) is the number of the user's contracts
\* that are Settled.
C35_UserStatistics ==
    \A u \in Users :
        /\ users[u].correctPredictions <= users[u].totalPredictions
        /\ users[u].currentStreak <= users[u].maxStreak
        /\ users[u].totalPredictions = Cardinality(SettledOf(u))

\* A user had a correct settlement and then a wrong one: the streak is
\* back at 0 under a maxStreak of 1, with two contracts counted.
C35_Witness ==
    \E u \in Users :
        /\ Cardinality(SettledOf(u)) = 2
        /\ users[u].totalPredictions = 2
        /\ users[u].correctPredictions = 1
        /\ users[u].currentStreak = 0
        /\ users[u].maxStreak = 1

\* C36: the close that shutdown() caused (the socket is closing only after
\* its ws.close()) schedules no reconnect, so no connection is opened
\* after the teardown.
C36_TeardownStaysDown ==
    [][(wsState = "closing" /\ OnClose)
          => reconnectTimers' = reconnectTimers]_vars

\* C37: in the browser client a submitPrediction call is resolved only by
\* the response that answers it, never by the response to another call.
C37_ResolvedByOwnResponse ==
    \A id \in DOMAIN clientCalls :
        clientCalls[id].outcome # Null
            => \/ clientCalls[id].outcome[1] # "resolved"
               \/ clientCalls[id].outcome[2] = id

\* C38: an active tournament whose endTime has passed is eventually marked
\* completed by the scheduler's callback, and the rewards of a tournament
\* are never distributed more than once.
C38_TournamentCompleted ==
    /\ \A id \in TournamentIds :
          (tournaments[id].status = "active" /\ tournaments[id].endTime <= clock)
              ~> (tournaments[id].status = "completed")
    /\ [](\A id \in TournamentIds : tournaments[id].distributions <= 1)

====
